---- MODULE Spec2Model ----
(***************************************************************************)
(* The SCSS generator of the scss-forge package: the node types of the     *)
(* AST (their generate routines) and the printer they drive.               *)
(*                                                                         *)
(* A text is a sequence of lexical atoms (short strings), so that          *)
(* "'" + value + "'" is << "'" >> \o value \o << "'" >> and a brace inside  *)
(* a raw value is an atom of its own.  A node is a record with a `type`    *)
(* field; an optional field that was not supplied is absent from the       *)
(* record.  A generation pass is the sequence of calls made on the         *)
(* printer, each call tagged with the depth of the routine that made it.   *)
(***************************************************************************)
EXTENDS Integers, Sequences, FiniteSets, TLC

\* Longest collection (children, body, params, elements, ...) enumerated.
MaxLen == 3
\* Longest @if / @else if chain enumerated.
MaxChain == 2

\* `undefined`: no parent argument, or an absent value handed to print().
None == [type |-> "None"]

HasField(node, f) == f \in DOMAIN node

\* All sequences over S of length 0..n.
RECURSIVE SeqsUpTo(_, _)
SeqsUpTo(S, n) ==
  IF n = 0 THEN {<<>>}
  ELSE LET shorter == SeqsUpTo(S, n - 1)
       IN  shorter \cup {Append(s, e) : s \in {t \in shorter : Len(t) = n - 1}, e \in S}

\* The concatenation of a sequence of sequences.
RECURSIVE Concat(_)
Concat(ss) == IF ss = <<>> THEN <<>> ELSE Head(ss) \o Concat(Tail(ss))

\* Array.prototype.indexOf, 0-based, -1 when absent.
IndexOf(s, e) ==
  IF \E i \in 1..Len(s) : s[i] = e
  THEN (CHOOSE i \in 1..Len(s) : s[i] = e /\ \A j \in 1..(i - 1) : s[j] # e) - 1
  ELSE -1

\* `node.f`, or undefined when the field was not supplied.
Get(node, f) == IF HasField(node, f) THEN node[f] ELSE None

\* Array.isArray(node.f) for a field whose schema is arrayOf(...).
IsArrayField(node, f) == HasField(node, f)

(***************************************************************************)
(* Calls on the printer.  d is the nesting depth of the generate routine   *)
(* that makes the call; the top-level print() call has depth 0.            *)
(***************************************************************************)
token(t, d) == [op |-> "token", arg |-> t, d |-> d]
space(d) == [op |-> "space", d |-> d]
newline(d) == [op |-> "newline", d |-> d]
maybeNewline(d) == [op |-> "maybeNewline", d |-> d]
blockStart(open, d) == [op |-> "blockStart", arg |-> open, d |-> d]
blockEnd(close, d) == [op |-> "blockEnd", arg |-> close, d |-> d]
\* print(child, parent) made by the routine of `from` for its field `field`.
printCall(child, parent, from, field, d) ==
  [op |-> "print", arg |-> child, parent |-> parent, from |-> from,
   field |-> field, d |-> d]
\* An exception leaves the pass: nothing after it is executed.
throw(d) == [op |-> "throw", d |-> d]

\* String(value) for the primitives token() is handed.
BooleanToString(b) == IF b THEN <<"true">> ELSE <<"false">>
NumberToString(n) == <<ToString(n)>>

\* value.split('\n'): the lines of a text, "\n" being an atom of its own.
RECURSIVE SplitLines(_)
SplitLines(t) ==
  IF \E i \in 1..Len(t) : t[i] = "\n"
  THEN LET i == CHOOSE k \in 1..Len(t) : t[k] = "\n" /\ \A j \in 1..(k - 1) : t[j] # "\n"
       IN  <<SubSeq(t, 1, i - 1)>> \o SplitLines(SubSeq(t, i + 1, Len(t)))
  ELSE <<t>>

\* selectors.join(', ')
RECURSIVE JoinText(_, _)
JoinText(ts, sep) ==
  IF ts = <<>> THEN <<>>
  ELSE IF Len(ts) = 1 THEN ts[1]
  ELSE ts[1] \o sep \o JoinText(Tail(ts), sep)

\* A field that holds null is named by the node's `null` entry and has no
\* entry of its own; a field that is undefined has neither.
IsNull(node, f) == HasField(node, "null") /\ node.null = f

\* typeof value === 'string' for a field that holds a string or a node.
JSString(t) == [typeof |-> "string", value |-> t]
IsString(v) == HasField(v, "typeof") /\ v.typeof = "string"

RECURSIVE print(_, _, _, _, _)

\*-------------------------------------------------------------------------
\* Comments
\*-------------------------------------------------------------------------
\* Variant: a newline after every line, the last one included.
Comment_generate_NewlineAfterEach(node, parent, d) ==
  IF IsNull(node, "value") \/ (~HasField(node, "value")) \/ node.value = <<>> THEN <<>>
  ELSE LET lines == SplitLines(node.value)
       IN  Concat([i \in 1..Len(lines) |->
                     <<token(<<"//", " ">>, d), token(lines[i], d)>>
                     \o <<newline(d)>>])

Comment_generate(node, parent, d) ==
  IF IsNull(node, "value") \/ (~HasField(node, "value")) \/ node.value = <<>> THEN <<>>
  ELSE LET lines == SplitLines(node.value)
       IN  Concat([i \in 1..Len(lines) |->
                     <<token(<<"//", " ">>, d), token(lines[i], d)>>
                     \o (IF i # Len(lines) THEN <<newline(d)>> ELSE <<>>)])

\*-------------------------------------------------------------------------
\* Identifier
\*-------------------------------------------------------------------------
\* Variant: RestPattern left out of the parent types.
Identifier_generate_NoRestPattern(node, parent, d) ==
  (IF parent # None
      /\ parent.type \in {"Assignment", "AssignmentPattern", "CallExpression",
                          "LogicalExpression", "SassMixin", "SassList",
                          "SassFunction"}
   THEN <<token(<<"$">>, d)>>
   ELSE <<>>)
  \o <<token(node.name, d)>>

Identifier_generate(node, parent, d) ==
  (IF parent # None
      /\ parent.type \in {"Assignment", "AssignmentPattern", "CallExpression",
                          "LogicalExpression", "SassMixin", "SassList",
                          "RestPattern", "SassFunction"}
   THEN <<token(<<"$">>, d)>>
   ELSE <<>>)
  \o <<token(node.name, d)>>

\*-------------------------------------------------------------------------
\* Blocks
\*-------------------------------------------------------------------------
BlockStatement_generate(node, parent, d) ==
  <<blockStart(<<"{">>, d)>>
  \o Concat([i \in 1..Len(node.body) |->
               print(node.body[i], node, node, "body", d)
               \o (IF i # Len(node.body) THEN <<newline(d)>> ELSE <<>>)])
  \o <<blockEnd(<<"}">>, d)>>

\*-------------------------------------------------------------------------
\* Values
\*-------------------------------------------------------------------------
SassBoolean_generate(node, parent, d) == <<token(BooleanToString(node.value), d)>>

SassColor_generate(node, parent, d) == <<token(node.value, d)>>

SassFunction_generate(node, parent, d) ==
  <<token(<<"@function">>, d), space(d)>>
  \o print(node.id, parent, node, "id", d)
  \o <<token(<<"(">>, d)>>
  \o (IF IsArrayField(node, "params")
      THEN Concat([i \in 1..Len(node.params) |->
                     print(node.params[i], node, node, "params", d)
                     \o (IF i # Len(node.params)
                         THEN <<token(<<",">>, d), space(d)>> ELSE <<>>)])
      ELSE <<>>)
  \o <<token(<<")">>, d), space(d)>>
  \o print(node.body, parent, node, "body", d)

\* Variant: the separator follows every element, the last one too.
SassList_generate_TrailingComma(node, parent, d) ==
  <<token(<<"(">>, d)>>
  \o Concat([i \in 1..Len(node.elements) |->
               print(node.elements[i], node, node, "elements", d)
               \o <<token(<<",">>, d), space(d)>>])
  \o <<token(<<")">>, d)>>

SassList_generate(node, parent, d) ==
  <<token(<<"(">>, d)>>
  \o Concat([i \in 1..Len(node.elements) |->
               print(node.elements[i], node, node, "elements", d)
               \o (IF i # Len(node.elements)
                   THEN <<token(<<",">>, d), space(d)>> ELSE <<>>)])
  \o <<token(<<")">>, d)>>

\* Variant: the block opened with `(` is closed with the default `}`.
SassMap_generate_DefaultClose(node, parent, d) ==
  <<blockStart(<<"(">>, d)>>
  \o Concat([i \in 1..Len(node.properties) |->
               print(node.properties[i], None, node, "properties", d)
               \o (IF i # Len(node.properties)
                   THEN <<token(<<",">>, d), newline(d)>> ELSE <<>>)])
  \o <<blockEnd(<<"}">>, d)>>

SassMap_generate(node, parent, d) ==
  <<blockStart(<<"(">>, d)>>
  \o Concat([i \in 1..Len(node.properties) |->
               print(node.properties[i], None, node, "properties", d)
               \o (IF i # Len(node.properties)
                   THEN <<token(<<",">>, d), newline(d)>> ELSE <<>>)])
  \o <<blockEnd(<<")">>, d)>>

SassMapProperty_generate(node, parent, d) ==
  (IF HasField(node, "quoted") /\ node.quoted
   THEN <<token(<<"'">>, d)>> \o print(node.key, node, node, "key", d)
        \o <<token(<<"'">>, d)>>
   ELSE print(node.key, node, node, "key", d))
  \o <<token(<<":">>, d), space(d)>>
  \o print(node.value, node, node, "value", d)

SassMixin_generate(node, parent, d) ==
  <<token(<<"@mixin">>, d), space(d)>>
  \o print(node.id, parent, node, "id", d)
  \o <<token(<<"(">>, d)>>
  \o (IF IsArrayField(node, "params")
      THEN Concat([i \in 1..Len(node.params) |->
                     print(node.params[i], node, node, "params", d)
                     \o (IF i # Len(node.params)
                         THEN <<token(<<",">>, d), space(d)>> ELSE <<>>)])
      ELSE <<>>)
  \o <<token(<<")">>, d), space(d)>>
  \o print(node.body, parent, node, "body", d)

SassNumber_generate(node, parent, d) == <<token(NumberToString(node.value), d)>>

SassString_generate(node, parent, d) ==
  <<token(<<"'">> \o node.value \o <<"'">>, d)>>

SassValue_generate(node, parent, d) == <<token(node.value, d)>>

\*-------------------------------------------------------------------------
\* Calls
\*-------------------------------------------------------------------------
\* Variant: no `$` in front of an Identifier param.
SassFunctionCall_generate_NoSigil(node, parent, d) ==
  <<space(d)>>
  \o print(node.id, None, node, "id", d)
  \o <<token(<<"(">>, d)>>
  \o (IF IsArrayField(node, "params")
      THEN Concat([i \in 1..Len(node.params) |->
                     print(node.params[i], node, node, "params", d)
                     \o (IF i # Len(node.params)
                         THEN <<token(<<",">>, d), space(d)>> ELSE <<>>)])
      ELSE <<>>)
  \o <<token(<<")">>, d)>>

SassFunctionCall_generate(node, parent, d) ==
  <<space(d)>>
  \o print(node.id, None, node, "id", d)
  \o <<token(<<"(">>, d)>>
  \o (IF IsArrayField(node, "params")
      THEN Concat([i \in 1..Len(node.params) |->
                     (IF node.params[i].type = "Identifier"
                      THEN <<token(<<"$">>, d)>> ELSE <<>>)
                     \o print(node.params[i], node, node, "params", d)
                     \o (IF i # Len(node.params)
                         THEN <<token(<<",">>, d), space(d)>> ELSE <<>>)])
      ELSE <<>>)
  \o <<token(<<")">>, d)>>

\* Variant: the `;` is emitted before the body block.
SassMixinCall_generate_SemicolonFirst(node, parent, d) ==
  <<token(<<"@include">>, d), space(d)>>
  \o print(node.id, None, node, "id", d)
  \o <<token(<<"(">>, d)>>
  \o (IF IsArrayField(node, "params")
      THEN Concat([i \in 1..Len(node.params) |->
                     (IF node.params[i].type = "Identifier"
                      THEN <<token(<<"$">>, d)>> ELSE <<>>)
                     \o print(node.params[i], node, node, "params", d)
                     \o (IF i # Len(node.params)
                         THEN <<token(<<",">>, d), space(d)>> ELSE <<>>)])
      ELSE <<>>)
  \o <<token(<<")">>, d)>>
  \o <<token(<<";">>, d)>>
  \o (IF HasField(node, "body")
      THEN print(node.body, node, node, "body", d) ELSE <<>>)

SassMixinCall_generate(node, parent, d) ==
  <<token(<<"@include">>, d), space(d)>>
  \o print(node.id, None, node, "id", d)
  \o <<token(<<"(">>, d)>>
  \o (IF IsArrayField(node, "params")
      THEN Concat([i \in 1..Len(node.params) |->
                     (IF node.params[i].type = "Identifier"
                      THEN <<token(<<"$">>, d)>> ELSE <<>>)
                     \o print(node.params[i], node, node, "params", d)
                     \o (IF i # Len(node.params)
                         THEN <<token(<<",">>, d), space(d)>> ELSE <<>>)])
      ELSE <<>>)
  \o <<token(<<")">>, d)>>
  \o (IF HasField(node, "body")
      THEN print(node.body, node, node, "body", d) ELSE <<>>)
  \o <<token(<<";">>, d)>>

\*-------------------------------------------------------------------------
\* Rules
\*-------------------------------------------------------------------------
\* Variant: the declarations are handed the Rule's own parent.
Rule_generate_OwnParent(node, parent, d) ==
  <<token(JoinText(node.selectors, <<",", " ">>), d), space(d),
    blockStart(<<"{">>, d)>>
  \o Concat([i \in 1..Len(node.declarations) |->
               print(node.declarations[i], parent, node, "declarations", d)
               \o (IF i # Len(node.declarations) THEN <<newline(d)>> ELSE <<>>)])
  \o <<blockEnd(<<"}">>, d)>>

Rule_generate(node, parent, d) ==
  <<token(JoinText(node.selectors, <<",", " ">>), d), space(d),
    blockStart(<<"{">>, d)>>
  \o Concat([i \in 1..Len(node.declarations) |->
               print(node.declarations[i], node, node, "declarations", d)
               \o (IF i # Len(node.declarations) THEN <<newline(d)>> ELSE <<>>)])
  \o <<blockEnd(<<"}">>, d)>>

Declaration_generate(node, parent, d) ==
  <<token(node.property, d), token(<<":">>, d), space(d)>>
  \o (IF IsString(node.value)
      THEN <<token(node.value.value, d)>>
      ELSE print(node.value, None, node, "value", d))
  \o <<token(<<";">>, d)>>

\*-------------------------------------------------------------------------
\* At-Rules and directives
\*-------------------------------------------------------------------------
AtRule_generate(node, parent, d) ==
  <<token(<<"@">> \o node.name, d), space(d), token(node.media, d), space(d)>>
  \o (IF Len(node.children) > 0
      THEN <<blockStart(<<"{">>, d)>>
           \o Concat([i \in 1..Len(node.children) |->
                        print(node.children[i], node, node, "children", d)
                        \o (IF i # Len(node.children)
                            THEN <<newline(d)>> ELSE <<>>)])
           \o <<blockEnd(<<"}">>, d)>>
      ELSE <<>>)

\* parent?.body?.indexOf(node) !== 0.  Only a BlockStatement's body is an
\* array; the body of the other types is a node, which has no indexOf, so
\* the call throws a TypeError.
BodyIndexThrows(parent) ==
  parent # None /\ HasField(parent, "body") /\ parent.type # "BlockStatement"

NotFirstInBody(node, parent) ==
  ~(parent # None /\ HasField(parent, "body") /\ IndexOf(parent.body, node) = 0)

AtContent_generate(node, parent, d) ==
  IF BodyIndexThrows(parent) THEN <<throw(d)>>
  ELSE (IF NotFirstInBody(node, parent) THEN <<maybeNewline(d)>> ELSE <<>>)
       \o <<token(<<"@content", ";">>, d)>>

AtReturn_generate(node, parent, d) ==
  IF BodyIndexThrows(parent) THEN <<throw(d)>>
  ELSE (IF NotFirstInBody(node, parent) THEN <<maybeNewline(d)>> ELSE <<>>)
       \o <<token(<<"@return">>, d), space(d)>>
       \o print(Get(node, "argument"), node, node, "argument", d)
       \o <<token(<<";">>, d)>>

\*-------------------------------------------------------------------------
\* Assignment
\*-------------------------------------------------------------------------
\* parent.children || parent.body, as far as its length and its elements
\* are read: a body that is a node has no length, so `length > 1` is false
\* for it exactly as for an empty array.
CollectionOf(parent) ==
  IF HasField(parent, "children") THEN parent.children
  ELSE IF HasField(parent, "body") /\ parent.type = "BlockStatement"
       THEN parent.body
  ELSE <<>>

\* collection.filter((node) => node.type === Assignment.type)
RECURSIVE AssignmentsOf(_)
AssignmentsOf(collection) ==
  IF collection = <<>> THEN <<>>
  ELSE (IF Head(collection).type = "Assignment" THEN <<Head(collection)>> ELSE <<>>)
       \o AssignmentsOf(Tail(collection))

\* Variant: the length of the collection is not looked at.
AssignmentNewline_NoLengthCheck(node, parent) ==
  /\ parent # None
  /\ LET assignments == AssignmentsOf(CollectionOf(parent))
     IN  \/ Len(assignments) = 1
         \/ IndexOf(assignments, node) = Len(assignments) - 1

\* The newline an Assignment adds after its `;`.
AssignmentNewline(node, parent) ==
  /\ parent # None
  /\ Len(CollectionOf(parent)) > 1
  /\ LET assignments == AssignmentsOf(CollectionOf(parent))
     IN  \/ Len(assignments) = 1
         \/ IndexOf(assignments, node) = Len(assignments) - 1

Assignment_generate(node, parent, d) ==
  print(node.id, node, node, "id", d)
  \o <<token(<<":">>, d), space(d)>>
  \o print(node.init, node, node, "init", d)
  \o (IF HasField(node, "default") /\ node.default
      THEN <<space(d), token(<<"!default">>, d)>>
           \o (IF HasField(node, "global") /\ node.global
               THEN <<space(d)>> ELSE <<>>)
      ELSE <<>>)
  \o (IF HasField(node, "global") /\ node.global
      THEN <<token(<<"!global">>, d)>> ELSE <<>>)
  \o <<token(<<";">>, d)>>
  \o (IF AssignmentNewline(node, parent) THEN <<newline(d)>> ELSE <<>>)

AssignmentPattern_generate(node, parent, d) ==
  print(node.left, node, node, "left", d)
  \o <<token(<<":">>, d), space(d)>>
  \o print(Get(node, "right"), node, node, "right", d)

RestPattern_generate(node, parent, d) ==
  print(node.id, parent, node, "id", d)
  \o <<token(<<"...">>, d)>>

\*-------------------------------------------------------------------------
\* Imports
\*-------------------------------------------------------------------------
SassImport_generate(node, parent, d) ==
  <<token(<<"@import">>, d), space(d),
    token(<<"'">> \o node.path \o <<"'">>, d), token(<<";">>, d)>>

SassModule_generate(node, parent, d) ==
  <<token(<<"@use">>, d), space(d),
    token(<<"'">> \o node.path \o <<"'">>, d), token(<<";">>, d)>>

SassForward_generate(node, parent, d) ==
  <<token(<<"@forward">>, d), space(d),
    token(<<"'">> \o node.path \o <<"'">>, d), token(<<";">>, d)>>

\*-------------------------------------------------------------------------
\* Control structures
\*-------------------------------------------------------------------------
IfStatement_generate(node, parent, d) ==
  (IF parent # None /\ parent.type = "IfStatement"
   THEN <<space(d), token(<<"if">>, d)>>
   ELSE <<token(<<"@if">>, d)>>)
  \o <<space(d)>>
  \o print(Get(node, "test"), node, node, "test", d)
  \o print(Get(node, "consequent"), node, node, "consequent", d)
  \o (IF HasField(node, "alternate")
      THEN <<token(<<"@else">>, d)>>
           \o print(node.alternate, node, node, "alternate", d)
      ELSE <<>>)

\*-------------------------------------------------------------------------
\* Logical expressions
\*-------------------------------------------------------------------------
LogicalExpression_generate(node, parent, d) ==
  print(Get(node, "left"), node, node, "left", d)
  \o <<space(d), token(node.operator, d), space(d)>>
  \o print(Get(node, "right"), node, node, "right", d)

\*-------------------------------------------------------------------------
\* Call expressions
\*-------------------------------------------------------------------------
CallExpression_generate(node, parent, d) ==
  print(node.callee, None, node, "callee", d)
  \o <<token(<<"(">>, d)>>
  \o (IF IsArrayField(node, "arguments")
      THEN Concat([i \in 1..Len(node.arguments) |->
                     print(node.arguments[i], node, node, "arguments", d)
                     \o (IF i # Len(node.arguments)
                         THEN <<token(<<",">>, d), space(d)>> ELSE <<>>)])
      ELSE <<>>)
  \o <<token(<<")">>, d)>>

\*-------------------------------------------------------------------------
\* Formatting
\*-------------------------------------------------------------------------
Newline_generate(node, parent, d) == <<newline(d)>>

\*-------------------------------------------------------------------------
\* StyleSheet
\*-------------------------------------------------------------------------
StyleSheet_generate(node, parent, d) ==
  Concat([i \in 1..Len(node.children) |->
            print(node.children[i], node, node, "children", d)
            \o (IF i # Len(node.children) THEN <<newline(d)>> ELSE <<>>)])

\* The generate routine each type was defined with.
pureTypes ==
  {"Assignment", "AssignmentPattern", "AtContent", "AtReturn", "AtRule",
   "BlockStatement", "CallExpression", "Comment", "Declaration",
   "IfStatement", "Identifier", "LogicalExpression", "RestPattern", "Rule",
   "SassBoolean", "SassColor", "SassForward", "SassFunction",
   "SassFunctionCall", "SassImport", "SassNumber", "SassString", "SassList",
   "SassMap", "SassMapProperty", "SassModule", "SassValue", "SassMixin",
   "SassMixinCall", "StyleSheet", "Newline"}

generate(node, parent, d) ==
  CASE node.type = "Assignment" -> Assignment_generate(node, parent, d)
    [] node.type = "AssignmentPattern" -> AssignmentPattern_generate(node, parent, d)
    [] node.type = "AtContent" -> AtContent_generate(node, parent, d)
    [] node.type = "AtReturn" -> AtReturn_generate(node, parent, d)
    [] node.type = "AtRule" -> AtRule_generate(node, parent, d)
    [] node.type = "BlockStatement" -> BlockStatement_generate(node, parent, d)
    [] node.type = "CallExpression" -> CallExpression_generate(node, parent, d)
    [] node.type = "Comment" -> Comment_generate(node, parent, d)
    [] node.type = "Declaration" -> Declaration_generate(node, parent, d)
    [] node.type = "IfStatement" -> IfStatement_generate(node, parent, d)
    [] node.type = "Identifier" -> Identifier_generate(node, parent, d)
    [] node.type = "LogicalExpression" -> LogicalExpression_generate(node, parent, d)
    [] node.type = "RestPattern" -> RestPattern_generate(node, parent, d)
    [] node.type = "Rule" -> Rule_generate(node, parent, d)
    [] node.type = "SassBoolean" -> SassBoolean_generate(node, parent, d)
    [] node.type = "SassColor" -> SassColor_generate(node, parent, d)
    [] node.type = "SassForward" -> SassForward_generate(node, parent, d)
    [] node.type = "SassFunction" -> SassFunction_generate(node, parent, d)
    [] node.type = "SassFunctionCall" -> SassFunctionCall_generate(node, parent, d)
    [] node.type = "SassImport" -> SassImport_generate(node, parent, d)
    [] node.type = "SassNumber" -> SassNumber_generate(node, parent, d)
    [] node.type = "SassString" -> SassString_generate(node, parent, d)
    [] node.type = "SassList" -> SassList_generate(node, parent, d)
    [] node.type = "SassMap" -> SassMap_generate(node, parent, d)
    [] node.type = "SassMapProperty" -> SassMapProperty_generate(node, parent, d)
    [] node.type = "SassModule" -> SassModule_generate(node, parent, d)
    [] node.type = "SassValue" -> SassValue_generate(node, parent, d)
    [] node.type = "SassMixin" -> SassMixin_generate(node, parent, d)
    [] node.type = "SassMixinCall" -> SassMixinCall_generate(node, parent, d)
    [] node.type = "StyleSheet" -> StyleSheet_generate(node, parent, d)
    [] node.type = "Newline" -> Newline_generate(node, parent, d)

(***************************************************************************)
(* The printer.  print(node, parent) looks the node's type up and runs its *)
(* generate routine with the printer, the node and the parent it was       *)
(* handed; a value that is no node of a defined type makes it fail.        *)
(***************************************************************************)
print(node, parent, from, field, d) ==
  <<printCall(node, parent, from, field, d)>>
  \o (IF HasField(node, "type") /\ node.type \in pureTypes
      THEN generate(node, parent, d + 1)
      ELSE <<throw(d)>>)

\* The calls made until the pass ends or an exception leaves it.
Completed(calls) == \A i \in 1..Len(calls) : calls[i].op # "throw"

Executed(calls) ==
  IF Completed(calls) THEN calls
  ELSE LET i == CHOOSE k \in 1..Len(calls) :
                  calls[k].op = "throw" /\ \A j \in 1..(k - 1) : calls[j].op # "throw"
       IN  SubSeq(calls, 1, i - 1)

\* The printer's buffer, indent depth and line-start flag.
PrinterInit == [buffer |-> <<>>, indent |-> 0, lineStart |-> TRUE]

Indentation(n) == [i \in 1..n |-> "  "]

Emit(p, t) ==
  [p EXCEPT !.buffer = p.buffer \o (IF p.lineStart THEN Indentation(p.indent) ELSE <<>>) \o t,
            !.lineStart = FALSE]

Break(p) == [p EXCEPT !.buffer = p.buffer \o <<"\n">>, !.lineStart = TRUE]

PrinterCall(p, c) ==
  CASE c.op = "token" -> Emit(p, c.arg)
    [] c.op = "space" -> [p EXCEPT !.buffer = p.buffer \o <<" ">>]
    [] c.op = "newline" -> Break(p)
    [] c.op = "maybeNewline" -> IF p.lineStart THEN p ELSE Break(p)
    [] c.op = "blockStart" -> Break([Emit(p, c.arg) EXCEPT !.indent = p.indent + 1])
    [] c.op = "blockEnd" ->
         Emit(Break([p EXCEPT !.indent = IF p.indent > 0 THEN p.indent - 1 ELSE 0]), c.arg)
    [] OTHER -> p

RECURSIVE PrinterRun(_, _)
PrinterRun(p, calls) ==
  IF calls = <<>> THEN p ELSE PrinterRun(PrinterCall(p, Head(calls)), Tail(calls))

\* The text the printer hands back after the calls.
Render(calls) == PrinterRun(PrinterInit, calls).buffer

(***************************************************************************)
(* Nodes.  One constructor per type; an optional field is supplied with    *)
(* With().  Assignment, AtContent and AtReturn nodes are looked up with    *)
(* indexOf, which compares object identity: `ref` is that identity.        *)
(***************************************************************************)
With(node, f, v) == (f :> v) @@ node

Comment(value) == [type |-> "Comment", value |-> value]
Identifier(name) == [type |-> "Identifier", name |-> name]
BlockStatement(body) == [type |-> "BlockStatement", body |-> body]
SassBoolean(value) == [type |-> "SassBoolean", value |-> value]
SassColor(value) == [type |-> "SassColor", value |-> value]
SassFunction(id, body) == [type |-> "SassFunction", id |-> id, body |-> body]
SassList(elements) == [type |-> "SassList", elements |-> elements]
SassMap(properties) == [type |-> "SassMap", properties |-> properties]
SassMapProperty(key, value) == [type |-> "SassMapProperty", key |-> key, value |-> value]
SassMixin(id, body) == [type |-> "SassMixin", id |-> id, body |-> body]
SassNumber(value) == [type |-> "SassNumber", value |-> value]
SassString(value) == [type |-> "SassString", value |-> value]
SassValue(value) == [type |-> "SassValue", value |-> value]
SassFunctionCall(id) == [type |-> "SassFunctionCall", id |-> id]
SassMixinCall(id) == [type |-> "SassMixinCall", id |-> id]
Rule(selectors, declarations) ==
  [type |-> "Rule", selectors |-> selectors, declarations |-> declarations]
Declaration(property, value) == [type |-> "Declaration", property |-> property, value |-> value]
AtRule(name, media, children) ==
  [type |-> "AtRule", name |-> name, media |-> media, children |-> children]
AtContent(ref) == [type |-> "AtContent", ref |-> ref]
AtReturn(ref, argument) == [type |-> "AtReturn", ref |-> ref, argument |-> argument]
Assignment(ref, id, init) == [type |-> "Assignment", ref |-> ref, id |-> id, init |-> init]
AssignmentPattern(left, right) == [type |-> "AssignmentPattern", left |-> left, right |-> right]
RestPattern(id) == [type |-> "RestPattern", id |-> id]
SassImport(path) == [type |-> "SassImport", path |-> path]
SassModule(path) == [type |-> "SassModule", path |-> path]
SassForward(path) == [type |-> "SassForward", path |-> path]
IfStatement(test) == [type |-> "IfStatement", test |-> test]
LogicalExpression(left, operator, right) ==
  [type |-> "LogicalExpression", left |-> left, operator |-> operator, right |-> right]
CallExpression(callee) == [type |-> "CallExpression", callee |-> callee]
Newline == [type |-> "Newline"]
StyleSheet(children) == [type |-> "StyleSheet", children |-> children]

\* node with field f either absent or one of the values of S.
Optional(nodes, f, S) == nodes \cup {With(n, f, v) : n \in nodes, v \in S}

(***************************************************************************)
(* The trees and parents a pass is run on.                                 *)
(***************************************************************************)
\* Raw texts: plain, with balanced delimiters, with a lone closer or opener.
RawTexts == {<<"red">>, <<"(", "a", ")">>, <<")">>, <<"{">>}

X == Identifier(<<"x">>)
Y == Identifier(<<"y">>)
One == SassNumber(1)
EmptyBlock == BlockStatement(<<>>)
A1 == Assignment(1, X, One)
A2 == Assignment(2, Y, One)
A0 == Assignment(0, X, One)
D1 == Declaration(<<"color">>, JSString(<<"red">>))
D2 == Declaration(<<"width">>, With(CallExpression(X), "arguments", <<Y, One>>))
R1 == Rule(<<<<".a">>>>, <<D1>>)
R2 == Rule(<<<<".a">>, <<".b">>>>, <<>>)
InnerIf == With(IfStatement(X), "consequent", EmptyBlock)

Identifiers == {X, Y}
SassBooleans == {SassBoolean(b) : b \in BOOLEAN}
SassNumbers == {SassNumber(n) : n \in {0, 1}}
SassColors == {SassColor(t) : t \in RawTexts}
SassStrings == {SassString(t) : t \in RawTexts}
SassValues == {SassValue(t) : t \in RawTexts}
RestPatterns == {RestPattern(i) : i \in Identifiers}
Comments ==
  {[type |-> "Comment"], [type |-> "Comment", null |-> "value"], Comment(<<>>), Comment(<<"a">>),
   Comment(<<"a", "\n", "b">>), Comment(<<"(", "\n", ")">>),
   Comment(<<"a", "\n", "\n", "b">>), Comment(<<"a", "\n">>)}
SassImports == {SassImport(<<"a">>)}
SassModules == {SassModule(<<"a">>)}
SassForwards == {SassForward(<<"a">>)}
Newlines == {Newline}
AtContents == {AtContent(r) : r \in {1, 2}}

LogicalExpressions ==
  {LogicalExpression(l, <<"and">>, r) : l \in {X, One, RestPattern(X)},
                                         r \in {Y, One, RestPattern(X)}}

SassLists == {SassList(es) : es \in SeqsUpTo({X, One, SassList(<<X>>)}, MaxLen)}

SassMapProperties ==
  Optional({SassMapProperty(X, v) : v \in {One, SassList(<<X>>), SassMap(<<>>)}},
           "quoted", BOOLEAN)

SassMaps ==
  {SassMap(ps) : ps \in SeqsUpTo({SassMapProperty(X, One),
                                  With(SassMapProperty(Y, SassList(<<X>>)), "quoted", TRUE)},
                                 MaxLen)}

AssignmentPatterns ==
  {AssignmentPattern(X, r) : r \in {One, Y, RestPattern(X), SassMixin(Y, EmptyBlock)}}

CallExpressions ==
  Optional({CallExpression(X)}, "arguments",
           SeqsUpTo({Y, One, RestPattern(X), SassFunction(Y, EmptyBlock)}, MaxLen))

Declarations ==
  {Declaration(<<"color">>, v) :
     v \in {JSString(t) : t \in RawTexts} \cup {CallExpression(X), D2.value}
           \* values the routine is not meant for: nodes of other types
           \cup {One, SassList(<<X>>)}}

Rules ==
  {Rule(sel, ds) : sel \in {<<>>, <<<<".a">>>>, <<<<".a">>, <<".b">>>>, <<<<"{">>>>},
                   ds \in SeqsUpTo({D1, D2}, MaxLen)}

AtRules ==
  {AtRule(<<"media">>, m, cs) : m \in {<<"(", "min-width: 0", ")">>, <<"(">>},
                                 cs \in SeqsUpTo({R1, R2}, MaxLen)}

AtReturns ==
  {AtReturn(r, a) : r \in {1, 2},
                    a \in {X, One, RestPattern(X), CallExpression(X),
                           LogicalExpression(X, <<"and">>, Y)}}

SassFunctionCalls ==
  Optional({SassFunctionCall(X)}, "params",
           SeqsUpTo({Y, One, SassValue(<<")">>)}, MaxLen))

Assignments ==
  {A1, A2} \cup
  Optional(Optional({Assignment(0, X, i) :
                       i \in {One, SassList(<<X>>), D2.value, SassFunctionCall(X),
                              SassString(<<"{">>)}},
                    "default", BOOLEAN),
           "global", BOOLEAN)

BlockStatements ==
  {BlockStatement(b) : b \in SeqsUpTo({A1, A2, D1, AtReturn(1, X)}, MaxLen)}
  \cup {BlockStatement(<<n>>) :
          n \in {AtContent(1), RestPattern(X), Comment(<<"a">>), InnerIf,
                 With(SassMixinCall(X), "body", BlockStatement(<<D1>>)),
                 SassValue(<<"}">>)}}
  \cup {BlockStatement(<<D1, AtContent(1)>>), BlockStatement(<<D1, AtReturn(1, X)>>)}

SassFunctions ==
  Optional({SassFunction(X, b) : b \in {EmptyBlock, BlockStatement(<<AtReturn(1, X)>>)}},
           "params", SeqsUpTo({Y, AssignmentPattern(X, One)}, MaxLen))

SassMixins ==
  Optional({SassMixin(X, b) : b \in {EmptyBlock, BlockStatement(<<AtContent(1)>>)}},
           "params", SeqsUpTo({Y, AssignmentPattern(X, One)}, MaxLen))

SassMixinCalls ==
  Optional(Optional({SassMixinCall(X)}, "params", SeqsUpTo({Y, One}, MaxLen)),
           "body", {EmptyBlock, BlockStatement(<<D1>>)})

\* The @if statements with an @else if chain of at most k statements.
RECURSIVE IfChains(_)
IfChains(k) ==
  IF k = 0 THEN {}
  ELSE Optional(Optional({IfStatement(t) : t \in {X, InnerIf}},
                         "consequent", {EmptyBlock}),
                "alternate", {BlockStatement(<<D1>>)} \cup IfChains(k - 1))

IfStatements ==
  IfChains(MaxChain)
  \cup {With(IfStatement(LogicalExpression(X, <<"and">>, Y)), "consequent",
              BlockStatement(<<D1>>))}

StyleSheets ==
  {StyleSheet(cs) : cs \in SeqsUpTo({A1, A2, R1, Newline}, MaxLen)}
  \cup {StyleSheet(<<n>>) :
          n \in {AtRule(<<"media">>, <<"print">>, <<R1>>), Comment(<<"a">>),
                 With(InnerIf, "alternate", InnerIf),
                 SassFunction(X, EmptyBlock), SassImport(<<"a">>),
                 SassMixin(X, EmptyBlock), SassMixinCall(X)}}

\* One node of every type.
Representatives ==
  {A1, AssignmentPattern(X, One), AtContent(1), AtReturn(1, X),
   AtRule(<<"media">>, <<"print">>, <<>>), EmptyBlock, CallExpression(X),
   Comment(<<"a">>), D1, InnerIf, X, LogicalExpression(X, <<"and">>, Y),
   RestPattern(X), R1, SassBoolean(TRUE), SassColor(<<"red">>),
   SassForward(<<"a">>), SassFunction(X, EmptyBlock), SassFunctionCall(X),
   SassImport(<<"a">>), One, SassString(<<"red">>), SassList(<<>>),
   SassMap(<<>>), SassMapProperty(X, One), SassModule(<<"a">>),
   SassValue(<<"red">>), SassMixin(X, EmptyBlock), SassMixinCall(X),
   StyleSheet(<<>>), Newline}

\* Parents for a routine that reads its parent argument.
AnyParent == {None} \cup Representatives
\* Parents for a routine that takes no parent argument.
FewParents == {None, StyleSheet(<<>>), EmptyBlock}
\* Parents that hold a collection of statements.
CollectionParents == StyleSheets \cup BlockStatements \cup AtRules

(***************************************************************************)
(* Construction.  A value supplied to a constructor is a string, a number, *)
(* a boolean, an array of values or a node; a field that is not supplied   *)
(* is absent from the field map.  A validator is kept as data and run by   *)
(* Check.                                                                  *)
(***************************************************************************)
Value(kind, v) == [typeof |-> kind, value |-> v]

assertValueType(primitive) == [assert |-> "valueType", of |-> primitive]
assertType(T) == [assert |-> "type", of |-> T]
assertOneOf(validators) == [assert |-> "oneOf", of |-> validators]
arrayOf(validator) == [assert |-> "arrayOf", of |-> validator]
assertAny == [assert |-> "any"]

\* A declared field.  how holds "optional" for optional: true and "thunk"
\* when validate is () => validator, which is resolved when the field is
\* checked.
Field(name, how, validate) ==
  [name |-> name, optional |-> "optional" \in how, thunk |-> "thunk" \in how,
   validate |-> validate]

\* The declared fields of each type, in the order of their declaration.
fields(T) ==
  CASE T \in {"Comment", "SassColor", "SassString"} ->
         <<Field("value", {}, assertValueType("string"))>>
    [] T = "Identifier" -> <<Field("name", {}, assertValueType("string"))>>
    [] T = "BlockStatement" -> <<Field("body", {}, arrayOf(assertAny))>>
    [] T = "SassBoolean" -> <<Field("value", {}, assertValueType("boolean"))>>
    [] T = "SassFunction" ->
         <<Field("id", {}, assertType("Identifier")),
           Field("params", {"optional", "thunk"},
                 arrayOf(assertOneOf(<<assertType("AssignmentPattern"),
                                       assertType("Identifier")>>))),
           Field("body", {"thunk"}, assertType("BlockStatement"))>>
    [] T = "SassList" ->
         <<Field("elements", {"thunk"},
                 arrayOf(assertOneOf(<<assertType("SassBoolean"), assertType("SassList"),
                                       assertType("SassMap"), assertType("SassNumber"),
                                       assertType("SassString"),
                                       assertType("Identifier")>>)))>>
    [] T = "SassMap" ->
         <<Field("properties", {"thunk"}, arrayOf(assertType("SassMapProperty")))>>
    [] T = "SassMapProperty" ->
         \* the alternatives are Type Definitions, not validators
         <<Field("key", {}, assertType("Identifier")),
           Field("value", {"thunk"},
                 assertOneOf(<<[definition |-> "SassBoolean"], [definition |-> "SassNumber"],
                               [definition |-> "SassString"], [definition |-> "SassList"],
                               [definition |-> "SassMap"]>>)),
           Field("quoted", {"optional"}, assertValueType("boolean"))>>
    [] T = "SassMixin" ->
         <<Field("id", {}, assertType("Identifier")),
           Field("params", {"optional", "thunk"},
                 arrayOf(assertOneOf(<<assertType("AssignmentPattern"),
                                       assertType("Identifier")>>))),
           Field("body", {}, assertType("BlockStatement"))>>
    [] T = "SassNumber" -> <<Field("value", {}, assertValueType("number"))>>
    [] T = "SassValue" -> <<Field("value", {}, assertAny)>>
    [] T = "SassFunctionCall" ->
         <<Field("id", {}, assertType("Identifier")),
           Field("params", {"optional", "thunk"},
                 arrayOf(assertOneOf(<<assertType("Identifier"), assertType("SassBoolean"),
                                       assertType("SassList"), assertType("SassMap"),
                                       assertType("SassNumber"), assertType("SassString"),
                                       assertType("SassValue")>>)))>>
    [] T = "SassMixinCall" ->
         <<Field("id", {}, assertType("Identifier")),
           Field("params", {"optional", "thunk"},
                 arrayOf(assertOneOf(<<assertType("Identifier"), assertType("SassBoolean"),
                                       assertType("SassList"), assertType("SassMap"),
                                       assertType("SassNumber"),
                                       assertType("SassString")>>))),
           Field("body", {"optional"}, assertType("BlockStatement"))>>
    [] T = "Rule" ->
         <<Field("declarations", {"thunk"}, arrayOf(assertType("Declaration"))),
           Field("selectors", {}, arrayOf(assertValueType("string")))>>
    [] T = "Declaration" ->
         <<Field("property", {}, assertValueType("string")),
           Field("value", {"thunk"}, assertOneOf(<<assertValueType("string"),
                                        assertType("CallExpression")>>))>>
    [] T = "AtRule" ->
         <<Field("name", {}, assertValueType("string")),
           Field("media", {}, assertValueType("string")),
           Field("children", {}, arrayOf(assertOneOf(<<assertType("Rule")>>)))>>
    [] T \in {"AtContent", "Newline"} -> <<>>
    [] T = "AtReturn" -> <<Field("argument", {}, assertAny)>>
    [] T = "Assignment" ->
         <<Field("id", {}, assertType("Identifier")),
           Field("init", {"thunk"},
                 assertOneOf(<<assertType("CallExpression"), assertType("SassBoolean"),
                                     assertType("SassColor"), assertType("SassList"),
                                     assertType("SassMap"), assertType("SassNumber"),
                                     assertType("SassString"),
                                     assertType("SassFunctionCall")>>)),
           Field("default", {"optional"}, assertValueType("boolean")),
           Field("global", {"optional"}, assertValueType("boolean"))>>
    [] T = "AssignmentPattern" ->
         <<Field("left", {}, assertType("Identifier")), Field("right", {}, assertAny)>>
    [] T = "RestPattern" -> <<Field("id", {}, assertType("Identifier"))>>
    [] T \in {"SassImport", "SassModule", "SassForward"} ->
         <<Field("path", {}, assertValueType("string"))>>
    [] T = "IfStatement" ->
         <<Field("test", {}, assertAny),
           Field("consequent", {"optional"}, assertType("BlockStatement")),
           Field("alternate", {"optional", "thunk"},
                 assertOneOf(<<assertType("IfStatement"),
                                     assertType("BlockStatement")>>))>>
    [] T = "LogicalExpression" ->
         <<Field("left", {}, assertAny), Field("operator", {}, assertValueType("string")),
           Field("right", {}, assertAny)>>
    [] T = "CallExpression" ->
         <<Field("callee", {}, assertType("Identifier")),
           Field("arguments", {"optional"}, arrayOf(assertAny))>>
    [] T = "StyleSheet" ->
         <<Field("children", {"thunk"},
                 arrayOf(assertOneOf(<<assertType("Assignment"), assertType("AtRule"),
                                       assertType("Comment"), assertType("IfStatement"),
                                       assertType("Rule"), assertType("SassFunction"),
                                       assertType("SassImport"), assertType("SassMixin"),
                                       assertType("SassMixinCall"),
                                       assertType("Newline")>>)))>>

\* The outcome of running validator v on the value x: "pass", "fail", or
\* "TypeError" when an exception other than a schema error leaves it.
\* reading is what assertOneOf makes of an alternative that is a Type
\* Definition and not a validator: the definition is taken as a reference to
\* its type, the alternative counts as failed, or calling it raises a
\* TypeError.
RECURSIVE Check(_, _, _)
Check(v, x, reading) ==
  IF HasField(v, "definition")
  THEN (CASE reading = "reference" -> Check(assertType(v.definition), x, reading)
          [] reading = "failed" -> "fail"
          [] reading = "TypeError" -> "TypeError")
  ELSE CASE v.assert = "any" -> "pass"
         [] v.assert = "valueType" ->
              IF HasField(x, "typeof") /\ x.typeof = v.of THEN "pass" ELSE "fail"
         [] v.assert = "type" ->
              IF HasField(x, "type") /\ x.type = v.of THEN "pass" ELSE "fail"
         [] v.assert = "arrayOf" ->
              IF ~(HasField(x, "typeof") /\ x.typeof = "array") THEN "fail"
              ELSE LET r == [k \in 1..Len(x.value) |-> Check(v.of, x.value[k], reading)]
                       bad == {k \in 1..Len(x.value) : r[k] # "pass"}
                   IN  IF bad = {} THEN "pass"
                       ELSE r[CHOOSE k \in bad : \A j \in bad : k <= j]
         [] v.assert = "oneOf" ->
              LET r == [k \in 1..Len(v.of) |-> Check(v.of[k], x, reading)]
                  decided == {k \in 1..Len(v.of) : r[k] # "fail"}
              IN  IF decided = {} THEN "fail"
                  ELSE r[CHOOSE k \in decided : \A j \in decided : k <= j]

\* The constructor of type T: the frozen node, or the error of the first
\* failing field.
makeInvocableDefinition(T, supplied, reading) ==
  LET fs == fields(T)
      r == [k \in 1..Len(fs) |->
              IF ~HasField(supplied, fs[k].name)
              THEN (IF fs[k].optional THEN "pass" ELSE "fail")
              ELSE Check(fs[k].validate, supplied[fs[k].name], reading)]
      bad == {k \in 1..Len(fs) : r[k] # "pass"}
  IN  IF bad = {} THEN [node |-> [type |-> T] @@ supplied, error |-> None]
      ELSE LET k == CHOOSE i \in bad : \A j \in bad : i <= j
           IN  [node |-> None,
                error |-> IF r[k] = "TypeError" THEN [name |-> "TypeError"]
                          ELSE [name |-> "SchemaValidationError", type |-> T,
                                field |-> fs[k].name]]

\* The field maps: any of the declared fields, each with any of the values.
FieldMaps(T) ==
  LET IdNode == [type |-> "Identifier", name |-> Value("string", <<"x">>)]
      NumberNode == [type |-> "SassNumber", value |-> Value("number", 1)]
      BlockNode == [type |-> "BlockStatement", body |-> Value("array", <<>>)]
      Values == {Value("string", <<"not-a-number">>), Value("number", 1),
                 Value("boolean", TRUE), IdNode, NumberNode, BlockNode,
                 Value("array", <<>>), Value("array", <<IdNode, Value("number", 1)>>)}
      names == {fields(T)[k].name : k \in 1..Len(fields(T))}
  IN  UNION {[D -> Values] : D \in SUBSET names}

(***************************************************************************)
(* A generation pass: the entry point prints the root with the parent it   *)
(* was given on a fresh printer and hands back the printer's text; an      *)
(* exception ends the pass without a text.  A printer drives one pass, so  *)
(* a pass starts from the idle state only.  A construction is recorded     *)
(* with the type, the field map supplied and what the constructor made.    *)
(***************************************************************************)
VARIABLES
  construction, \* the last call of a constructor, None before it
  node,     \* the root of the last pass
  parent,   \* the parent argument of the last pass
  calls,    \* the calls made on the printer during the last pass
  status,   \* "idle" before the first pass, then "done" or "failed"
  output    \* the text handed back by the last pass

vars == <<construction, node, parent, calls, status, output>>

Init ==
  /\ construction = None
  /\ node = None
  /\ parent = None
  /\ calls = <<>>
  /\ status = "idle"
  /\ output = <<>>

\* The calls the entry point's print(n, p) leads to, a throw included.
Run(n, p) == print(n, p, None, "root", 0)

GenerateComment ==
  \E n \in Comments, p \in FewParents :
    /\ status = "idle"
    /\ UNCHANGED construction
    /\ node' = n
    /\ parent' = p
    /\ LET all == Run(n, p)
       IN  /\ calls' = Executed(all)
           /\ status' = IF Completed(all) THEN "done" ELSE "failed"
           /\ output' = IF Completed(all) THEN Render(all) ELSE <<>>

GenerateIdentifier ==
  \E n \in Identifiers, p \in AnyParent :
    /\ status = "idle"
    /\ UNCHANGED construction
    /\ node' = n
    /\ parent' = p
    /\ LET all == Run(n, p)
       IN  /\ calls' = Executed(all)
           /\ status' = IF Completed(all) THEN "done" ELSE "failed"
           /\ output' = IF Completed(all) THEN Render(all) ELSE <<>>

GenerateBlockStatement ==
  \E n \in BlockStatements, p \in FewParents :
    /\ status = "idle"
    /\ UNCHANGED construction
    /\ node' = n
    /\ parent' = p
    /\ LET all == Run(n, p)
       IN  /\ calls' = Executed(all)
           /\ status' = IF Completed(all) THEN "done" ELSE "failed"
           /\ output' = IF Completed(all) THEN Render(all) ELSE <<>>

GenerateSassBoolean ==
  \E n \in SassBooleans, p \in FewParents :
    /\ status = "idle"
    /\ UNCHANGED construction
    /\ node' = n
    /\ parent' = p
    /\ LET all == Run(n, p)
       IN  /\ calls' = Executed(all)
           /\ status' = IF Completed(all) THEN "done" ELSE "failed"
           /\ output' = IF Completed(all) THEN Render(all) ELSE <<>>

GenerateSassColor ==
  \E n \in SassColors, p \in FewParents :
    /\ status = "idle"
    /\ UNCHANGED construction
    /\ node' = n
    /\ parent' = p
    /\ LET all == Run(n, p)
       IN  /\ calls' = Executed(all)
           /\ status' = IF Completed(all) THEN "done" ELSE "failed"
           /\ output' = IF Completed(all) THEN Render(all) ELSE <<>>

GenerateSassFunction ==
  \E n \in SassFunctions, p \in AnyParent :
    /\ status = "idle"
    /\ UNCHANGED construction
    /\ node' = n
    /\ parent' = p
    /\ LET all == Run(n, p)
       IN  /\ calls' = Executed(all)
           /\ status' = IF Completed(all) THEN "done" ELSE "failed"
           /\ output' = IF Completed(all) THEN Render(all) ELSE <<>>

GenerateSassList ==
  \E n \in SassLists, p \in FewParents :
    /\ status = "idle"
    /\ UNCHANGED construction
    /\ node' = n
    /\ parent' = p
    /\ LET all == Run(n, p)
       IN  /\ calls' = Executed(all)
           /\ status' = IF Completed(all) THEN "done" ELSE "failed"
           /\ output' = IF Completed(all) THEN Render(all) ELSE <<>>

GenerateSassMap ==
  \E n \in SassMaps, p \in FewParents :
    /\ status = "idle"
    /\ UNCHANGED construction
    /\ node' = n
    /\ parent' = p
    /\ LET all == Run(n, p)
       IN  /\ calls' = Executed(all)
           /\ status' = IF Completed(all) THEN "done" ELSE "failed"
           /\ output' = IF Completed(all) THEN Render(all) ELSE <<>>

GenerateSassMapProperty ==
  \E n \in SassMapProperties, p \in FewParents :
    /\ status = "idle"
    /\ UNCHANGED construction
    /\ node' = n
    /\ parent' = p
    /\ LET all == Run(n, p)
       IN  /\ calls' = Executed(all)
           /\ status' = IF Completed(all) THEN "done" ELSE "failed"
           /\ output' = IF Completed(all) THEN Render(all) ELSE <<>>

GenerateSassMixin ==
  \E n \in SassMixins, p \in AnyParent :
    /\ status = "idle"
    /\ UNCHANGED construction
    /\ node' = n
    /\ parent' = p
    /\ LET all == Run(n, p)
       IN  /\ calls' = Executed(all)
           /\ status' = IF Completed(all) THEN "done" ELSE "failed"
           /\ output' = IF Completed(all) THEN Render(all) ELSE <<>>

GenerateSassNumber ==
  \E n \in SassNumbers, p \in FewParents :
    /\ status = "idle"
    /\ UNCHANGED construction
    /\ node' = n
    /\ parent' = p
    /\ LET all == Run(n, p)
       IN  /\ calls' = Executed(all)
           /\ status' = IF Completed(all) THEN "done" ELSE "failed"
           /\ output' = IF Completed(all) THEN Render(all) ELSE <<>>

GenerateSassString ==
  \E n \in SassStrings, p \in FewParents :
    /\ status = "idle"
    /\ UNCHANGED construction
    /\ node' = n
    /\ parent' = p
    /\ LET all == Run(n, p)
       IN  /\ calls' = Executed(all)
           /\ status' = IF Completed(all) THEN "done" ELSE "failed"
           /\ output' = IF Completed(all) THEN Render(all) ELSE <<>>

GenerateSassValue ==
  \E n \in SassValues, p \in FewParents :
    /\ status = "idle"
    /\ UNCHANGED construction
    /\ node' = n
    /\ parent' = p
    /\ LET all == Run(n, p)
       IN  /\ calls' = Executed(all)
           /\ status' = IF Completed(all) THEN "done" ELSE "failed"
           /\ output' = IF Completed(all) THEN Render(all) ELSE <<>>

GenerateSassFunctionCall ==
  \E n \in SassFunctionCalls, p \in FewParents :
    /\ status = "idle"
    /\ UNCHANGED construction
    /\ node' = n
    /\ parent' = p
    /\ LET all == Run(n, p)
       IN  /\ calls' = Executed(all)
           /\ status' = IF Completed(all) THEN "done" ELSE "failed"
           /\ output' = IF Completed(all) THEN Render(all) ELSE <<>>

GenerateSassMixinCall ==
  \E n \in SassMixinCalls, p \in FewParents :
    /\ status = "idle"
    /\ UNCHANGED construction
    /\ node' = n
    /\ parent' = p
    /\ LET all == Run(n, p)
       IN  /\ calls' = Executed(all)
           /\ status' = IF Completed(all) THEN "done" ELSE "failed"
           /\ output' = IF Completed(all) THEN Render(all) ELSE <<>>

GenerateRule ==
  \E n \in Rules, p \in FewParents :
    /\ status = "idle"
    /\ UNCHANGED construction
    /\ node' = n
    /\ parent' = p
    /\ LET all == Run(n, p)
       IN  /\ calls' = Executed(all)
           /\ status' = IF Completed(all) THEN "done" ELSE "failed"
           /\ output' = IF Completed(all) THEN Render(all) ELSE <<>>

GenerateDeclaration ==
  \E n \in Declarations, p \in FewParents :
    /\ status = "idle"
    /\ UNCHANGED construction
    /\ node' = n
    /\ parent' = p
    /\ LET all == Run(n, p)
       IN  /\ calls' = Executed(all)
           /\ status' = IF Completed(all) THEN "done" ELSE "failed"
           /\ output' = IF Completed(all) THEN Render(all) ELSE <<>>

GenerateAtRule ==
  \E n \in AtRules, p \in FewParents :
    /\ status = "idle"
    /\ UNCHANGED construction
    /\ node' = n
    /\ parent' = p
    /\ LET all == Run(n, p)
       IN  /\ calls' = Executed(all)
           /\ status' = IF Completed(all) THEN "done" ELSE "failed"
           /\ output' = IF Completed(all) THEN Render(all) ELSE <<>>

GenerateAtContent ==
  \E n \in AtContents, p \in AnyParent \cup BlockStatements :
    /\ status = "idle"
    /\ UNCHANGED construction
    /\ node' = n
    /\ parent' = p
    /\ LET all == Run(n, p)
       IN  /\ calls' = Executed(all)
           /\ status' = IF Completed(all) THEN "done" ELSE "failed"
           /\ output' = IF Completed(all) THEN Render(all) ELSE <<>>

GenerateAtReturn ==
  \E n \in AtReturns, p \in AnyParent \cup BlockStatements :
    /\ status = "idle"
    /\ UNCHANGED construction
    /\ node' = n
    /\ parent' = p
    /\ LET all == Run(n, p)
       IN  /\ calls' = Executed(all)
           /\ status' = IF Completed(all) THEN "done" ELSE "failed"
           /\ output' = IF Completed(all) THEN Render(all) ELSE <<>>

GenerateAssignment ==
  \E n \in Assignments :
  \E p \in AnyParent \cup (IF n \in {A0, A1, A2} THEN CollectionParents ELSE {}) :
    /\ status = "idle"
    /\ UNCHANGED construction
    /\ node' = n
    /\ parent' = p
    /\ LET all == Run(n, p)
       IN  /\ calls' = Executed(all)
           /\ status' = IF Completed(all) THEN "done" ELSE "failed"
           /\ output' = IF Completed(all) THEN Render(all) ELSE <<>>

GenerateAssignmentPattern ==
  \E n \in AssignmentPatterns, p \in FewParents :
    /\ status = "idle"
    /\ UNCHANGED construction
    /\ node' = n
    /\ parent' = p
    /\ LET all == Run(n, p)
       IN  /\ calls' = Executed(all)
           /\ status' = IF Completed(all) THEN "done" ELSE "failed"
           /\ output' = IF Completed(all) THEN Render(all) ELSE <<>>

GenerateRestPattern ==
  \E n \in RestPatterns, p \in AnyParent :
    /\ status = "idle"
    /\ UNCHANGED construction
    /\ node' = n
    /\ parent' = p
    /\ LET all == Run(n, p)
       IN  /\ calls' = Executed(all)
           /\ status' = IF Completed(all) THEN "done" ELSE "failed"
           /\ output' = IF Completed(all) THEN Render(all) ELSE <<>>

GenerateSassImport ==
  \E n \in SassImports, p \in FewParents :
    /\ status = "idle"
    /\ UNCHANGED construction
    /\ node' = n
    /\ parent' = p
    /\ LET all == Run(n, p)
       IN  /\ calls' = Executed(all)
           /\ status' = IF Completed(all) THEN "done" ELSE "failed"
           /\ output' = IF Completed(all) THEN Render(all) ELSE <<>>

GenerateSassModule ==
  \E n \in SassModules, p \in FewParents :
    /\ status = "idle"
    /\ UNCHANGED construction
    /\ node' = n
    /\ parent' = p
    /\ LET all == Run(n, p)
       IN  /\ calls' = Executed(all)
           /\ status' = IF Completed(all) THEN "done" ELSE "failed"
           /\ output' = IF Completed(all) THEN Render(all) ELSE <<>>

GenerateSassForward ==
  \E n \in SassForwards, p \in FewParents :
    /\ status = "idle"
    /\ UNCHANGED construction
    /\ node' = n
    /\ parent' = p
    /\ LET all == Run(n, p)
       IN  /\ calls' = Executed(all)
           /\ status' = IF Completed(all) THEN "done" ELSE "failed"
           /\ output' = IF Completed(all) THEN Render(all) ELSE <<>>

GenerateIfStatement ==
  \E n \in IfStatements, p \in AnyParent :
    /\ status = "idle"
    /\ UNCHANGED construction
    /\ node' = n
    /\ parent' = p
    /\ LET all == Run(n, p)
       IN  /\ calls' = Executed(all)
           /\ status' = IF Completed(all) THEN "done" ELSE "failed"
           /\ output' = IF Completed(all) THEN Render(all) ELSE <<>>

GenerateLogicalExpression ==
  \E n \in LogicalExpressions, p \in FewParents :
    /\ status = "idle"
    /\ UNCHANGED construction
    /\ node' = n
    /\ parent' = p
    /\ LET all == Run(n, p)
       IN  /\ calls' = Executed(all)
           /\ status' = IF Completed(all) THEN "done" ELSE "failed"
           /\ output' = IF Completed(all) THEN Render(all) ELSE <<>>

GenerateCallExpression ==
  \E n \in CallExpressions, p \in FewParents :
    /\ status = "idle"
    /\ UNCHANGED construction
    /\ node' = n
    /\ parent' = p
    /\ LET all == Run(n, p)
       IN  /\ calls' = Executed(all)
           /\ status' = IF Completed(all) THEN "done" ELSE "failed"
           /\ output' = IF Completed(all) THEN Render(all) ELSE <<>>

GenerateNewline ==
  \E n \in Newlines, p \in FewParents :
    /\ status = "idle"
    /\ UNCHANGED construction
    /\ node' = n
    /\ parent' = p
    /\ LET all == Run(n, p)
       IN  /\ calls' = Executed(all)
           /\ status' = IF Completed(all) THEN "done" ELSE "failed"
           /\ output' = IF Completed(all) THEN Render(all) ELSE <<>>

GenerateStyleSheet ==
  \E n \in StyleSheets, p \in FewParents :
    /\ status = "idle"
    /\ UNCHANGED construction
    /\ node' = n
    /\ parent' = p
    /\ LET all == Run(n, p)
       IN  /\ calls' = Executed(all)
           /\ status' = IF Completed(all) THEN "done" ELSE "failed"
           /\ output' = IF Completed(all) THEN Render(all) ELSE <<>>

\* A constructor is called with a field map.
Construct ==
  \E T \in pureTypes : \E supplied \in FieldMaps(T) :
  \E reading \in IF T = "SassMapProperty" THEN {"reference", "failed", "TypeError"}
                 ELSE {"reference"} :
    /\ status = "idle"
    /\ LET made == makeInvocableDefinition(T, supplied, reading)
       IN  /\ construction' = [type |-> T, supplied |-> supplied,
                               node |-> made.node, error |-> made.error]
           /\ status' = IF made.error = None THEN "constructed" ELSE "rejected"
    /\ UNCHANGED <<node, parent, calls, output>>

Next ==
  \/ Construct
  \/ GenerateComment
  \/ GenerateIdentifier
  \/ GenerateBlockStatement
  \/ GenerateSassBoolean
  \/ GenerateSassColor
  \/ GenerateSassFunction
  \/ GenerateSassList
  \/ GenerateSassMap
  \/ GenerateSassMapProperty
  \/ GenerateSassMixin
  \/ GenerateSassNumber
  \/ GenerateSassString
  \/ GenerateSassValue
  \/ GenerateSassFunctionCall
  \/ GenerateSassMixinCall
  \/ GenerateRule
  \/ GenerateDeclaration
  \/ GenerateAtRule
  \/ GenerateAtContent
  \/ GenerateAtReturn
  \/ GenerateAssignment
  \/ GenerateAssignmentPattern
  \/ GenerateRestPattern
  \/ GenerateSassImport
  \/ GenerateSassModule
  \/ GenerateSassForward
  \/ GenerateIfStatement
  \/ GenerateLogicalExpression
  \/ GenerateCallExpression
  \/ GenerateNewline
  \/ GenerateStyleSheet

Spec == Init /\ [][Next]_vars

(***************************************************************************)
(* Properties.  Auxiliary operators over the calls of a pass.              *)
(***************************************************************************)
IsToken(c, t) == c.op = "token" /\ c.arg = t

\* The print() calls made by a generate routine (not the entry point's).
ChildPrints == {i \in 1..Len(calls) : calls[i].op = "print" /\ calls[i].d >= 1}
AllPrints == {i \in 1..Len(calls) : calls[i].op = "print"}

\* The last call of the routine that print call i runs.
EndOf(i) ==
  CHOOSE j \in i..Len(calls) :
    /\ \A k \in (i + 1)..j : calls[k].d > calls[i].d
    /\ (j = Len(calls) \/ calls[j + 1].d <= calls[i].d)

\* The calls made by the routine that print call i runs, itself (not by the
\* routines of its children), in order.
Own(i) ==
  LET RECURSIVE From(_)
      From(j) == IF j > EndOf(i) THEN <<>>
                 ELSE (IF calls[j].d = calls[i].d + 1 THEN <<j>> ELSE <<>>) \o From(j + 1)
  IN  From(i + 1)

\* The print call whose routine made call i.
Caller(i) ==
  CHOOSE j \in 1..(i - 1) :
    /\ calls[j].op = "print" /\ calls[j].d = calls[i].d - 1
    /\ \A k \in (j + 1)..(i - 1) : ~(calls[k].op = "print" /\ calls[k].d = calls[i].d - 1)

\* The field of its holder that print call i prints.
Position(i) == <<calls[i].from.type, calls[i].field>>

\* The `$` tokens in front of the name of the Identifier that print call i
\* prints: the one its holder emitted right before the call, and its own.
Sigils(i) ==
  (IF i > 1 /\ IsToken(calls[i - 1], <<"$">>) /\ calls[i - 1].d = calls[i].d
   THEN 1 ELSE 0)
  + Cardinality({j \in (i + 1)..EndOf(i) : IsToken(calls[j], <<"$">>)})

\* The Identifier that print call i prints ends with its name.
NameLast(i) == EndOf(i) > i /\ IsToken(calls[EndOf(i)], calls[i].arg.name)

\*-------------------------------------------------------------------------
\* C1: the Identifier routine emits `$` before the name if and only if a
\* parent is supplied and its type is Assignment, AssignmentPattern,
\* CallExpression, LogicalExpression, SassMixin, SassFunction, SassList or
\* RestPattern; otherwise it emits the bare name only.
\*-------------------------------------------------------------------------
SigilParents ==
  {"Assignment", "AssignmentPattern", "CallExpression", "LogicalExpression",
   "SassMixin", "SassFunction", "SassList", "RestPattern"}

C1_IdentifierSigil ==
  \A i \in AllPrints :
    calls[i].arg.type = "Identifier" =>
      LET own == [k \in 1..Len(Own(i)) |-> calls[Own(i)[k]]]
          name == token(calls[i].arg.name, calls[i].d + 1)
      IN  IF calls[i].parent # None /\ calls[i].parent.type \in SigilParents
          THEN own = <<token(<<"$">>, calls[i].d + 1), name>>
          ELSE own = <<name>>

C1_Witness ==
  /\ status = "done" /\ node.type = "Identifier" /\ parent.type = "RestPattern"
  /\ Len(calls) = 3 /\ IsToken(calls[2], <<"$">>)

OwnParentPositions ==
  {<<"SassFunction", "id">>, <<"SassFunction", "body">>, <<"SassMixin", "id">>,
   <<"SassMixin", "body">>, <<"RestPattern", "id">>}

NoParentPositions ==
  {<<"CallExpression", "callee">>, <<"SassFunctionCall", "id">>,
   <<"SassMixinCall", "id">>, <<"Declaration", "value">>,
   <<"SassMap", "properties">>}

VariablePositions ==
  {<<"Assignment", "id">>, <<"AssignmentPattern", "left">>,
   <<"SassFunction", "params">>, <<"SassMixin", "params">>,
   <<"CallExpression", "arguments">>, <<"SassFunctionCall", "params">>,
   <<"SassMixinCall", "params">>, <<"SassList", "elements">>,
   <<"LogicalExpression", "left">>, <<"LogicalExpression", "right">>}

C3_VariableHasOneSigil ==
  \A i \in ChildPrints :
    (calls[i].arg.type = "Identifier" /\ Position(i) \in VariablePositions) =>
      (Sigils(i) = 1 /\ NameLast(i))

C3_Witness ==
  /\ status = "done" /\ node.type = "SassFunctionCall"
  /\ \E i \in ChildPrints :
       /\ calls[i].arg = Y /\ Position(i) = <<"SassFunctionCall", "params">>
       /\ Sigils(i) = 1

\*-------------------------------------------------------------------------
\* C4: an Identifier in a name position (the callee of a CallExpression,
\* the id of a SassFunctionCall or SassMixinCall, the id of a SassFunction
\* or SassMixin declaration) is rendered bare, without a `$`, in every
\* valid tree and under every enclosing context.
\*-------------------------------------------------------------------------
NamePositions ==
  {<<"CallExpression", "callee">>, <<"SassFunctionCall", "id">>,
   <<"SassMixinCall", "id">>, <<"SassFunction", "id">>, <<"SassMixin", "id">>}

C4_NameIsBare ==
  (status = "done" /\ parent = None) =>
  \A i \in ChildPrints :
    (calls[i].arg.type = "Identifier" /\ Position(i) \in NamePositions) =>
      (Sigils(i) = 0 /\ NameLast(i))

\*-------------------------------------------------------------------------
\* C5: the subject Identifier of every RestPattern, wherever the
\* RestPattern appears (or when it is generated with no parent), is
\* rendered with a leading `$`, then the name, then `...`.
\*-------------------------------------------------------------------------
C5_RestSubjectHasSigil ==
  (status = "done" /\ parent = None) =>
  \A i \in ChildPrints :
    Position(i) = <<"RestPattern", "id">> =>
      /\ Sigils(i) = 1 /\ NameLast(i)
      /\ EndOf(i) < Len(calls) /\ IsToken(calls[EndOf(i) + 1], <<"...">>)

\*-------------------------------------------------------------------------
\* C6 (as claimed): an IfStatement emits the bare keyword `if` exactly when
\* it is the alternate branch of another IfStatement, and `@if` in every
\* other position of a tree (a statement of a block or sheet, another
\* IfStatement's test, ...).
\*-------------------------------------------------------------------------
\* The keyword the IfStatement routine run by print call i starts with.
Keyword(i) ==
  IF IsToken(calls[i + 1], <<"@if">>) THEN "@if"
  ELSE IF calls[i + 1].op = "space" /\ IsToken(calls[i + 2], <<"if">>) THEN "if"
  ELSE "none"

C6_BareIfOnlyAsAlternate ==
  (status = "done" /\ parent = None) =>
  \A i \in ChildPrints :
    calls[i].arg.type = "IfStatement" =>
      Keyword(i) = IF Position(i) = <<"IfStatement", "alternate">> THEN "if" ELSE "@if"

\* C6 (the rule the routine follows): an IfStatement emits the bare keyword
\* `if` exactly when the parent it is generated with is an IfStatement,
\* whichever field of that parent holds it (its alternate, emitted directly
\* after the `@else`, but also its test), and `@if` with any other parent or
\* none; a chain IfStatement{A, B,
\* alternate IfStatement{C, D}} emits `@if`, A, B, `@else`, `if`, C, D, with
\* exactly one `@else` per alternate.
\* The keywords of the pass and the fields the IfStatement routines print,
\* in the order of the calls.
RECURSIVE IfLabels(_)
IfLabels(i) ==
  IF i > Len(calls) THEN <<>>
  ELSE (IF calls[i].op = "token" /\ calls[i].arg \in {<<"@if">>, <<"if">>, <<"@else">>}
        THEN calls[i].arg
        ELSE IF calls[i].op = "print" /\ calls[i].from.type = "IfStatement"
        THEN <<calls[i].field>>
        ELSE <<>>)
       \o IfLabels(i + 1)

\* The root is an IfStatement with a consequent whose alternate is an
\* IfStatement with a consequent, neither test being an IfStatement.
IsChain(n) ==
  /\ n.type = "IfStatement" /\ n.test.type # "IfStatement"
  /\ HasField(n, "consequent") /\ HasField(n, "alternate")
  /\ n.alternate.type = "IfStatement" /\ n.alternate.test.type # "IfStatement"
  /\ HasField(n.alternate, "consequent")

C6_IfKeyword ==
  /\ \A i \in AllPrints :
       (calls[i].arg.type = "IfStatement" /\ EndOf(i) > i) =>
         /\ Keyword(i) = IF calls[i].parent # None /\ calls[i].parent.type = "IfStatement"
                         THEN "if" ELSE "@if"
         /\ Position(i) = <<"IfStatement", "alternate">> => IsToken(calls[i - 1], <<"@else">>)
  /\ Cardinality({i \in 1..Len(calls) : IsToken(calls[i], <<"@else">>)})
       = Cardinality({i \in ChildPrints : Position(i) = <<"IfStatement", "alternate">>})
  /\ (status = "done" /\ IsChain(node) /\ (parent = None \/ parent.type # "IfStatement")) =>
       /\ Len(IfLabels(1)) >= 8
       /\ SubSeq(IfLabels(1), 1, 8) =
            <<"@if", "test", "consequent", "@else", "alternate", "if", "test", "consequent">>

C6_Witness ==
  /\ status = "done" /\ IsChain(node) /\ parent = None
  /\ ~HasField(node.alternate, "alternate")
  /\ IfLabels(1) = <<"@if", "test", "consequent", "@else", "alternate", "if", "test", "consequent">>

\*-------------------------------------------------------------------------
\* C7 (as claimed): for an Assignment generated with a parent whose
\* collection (children or body) has more than one element, the extra
\* newline after the `;` is emitted exactly when the Assignment is the last
\* one of a run of consecutive Assignment siblings; with a collection of
\* exactly one element, or with no parent, no newline is emitted.
\*-------------------------------------------------------------------------
\* The routine run by print call i ends with `;` and a newline / with `;`.
EndsWithNewline(i) ==
  /\ EndOf(i) > i + 1
  /\ calls[EndOf(i)] = newline(calls[i].d + 1)
  /\ calls[EndOf(i) - 1] = token(<<";">>, calls[i].d + 1)

EndsWithSemicolon(i) == EndOf(i) > i /\ calls[EndOf(i)] = token(<<";">>, calls[i].d + 1)

AssignmentPrints == {i \in AllPrints : calls[i].arg.type = "Assignment"}

IsElement(n, coll) == \E k \in 1..Len(coll) : coll[k] = n

\* No node object occurs twice in the collection.
Distinct(coll) == \A j, k \in 1..Len(coll) : coll[j] = coll[k] => j = k

LastOfRun(n, coll) ==
  \E k \in 1..Len(coll) :
    coll[k] = n /\ (k = Len(coll) \/ coll[k + 1].type # "Assignment")

C7_NewlineAfterEachRun ==
  status = "done" =>
    \A i \in AssignmentPrints :
      LET p == calls[i].parent
          coll == IF p = None THEN <<>> ELSE CollectionOf(p)
      IN  /\ (p = None \/ Len(coll) = 1) => EndsWithSemicolon(i)
          /\ (Len(coll) > 1 /\ IsElement(calls[i].arg, coll) /\ Distinct(coll)) =>
               (EndsWithNewline(i) <=> LastOfRun(calls[i].arg, coll))

\* C7 (amended): for an Assignment that is an element of its parent's
\* collection (children or body) of more than one element, the extra newline
\* after the `;` is emitted exactly when no Assignment element of the whole
\* collection comes after the Assignment's first occurrence in it, whatever
\* lies in between; with a collection of at most one element, or with no
\* parent, no newline is emitted.
C7_NewlineAfterLastAssignment ==
  status = "done" =>
    \A i \in AssignmentPrints :
      LET p == calls[i].parent
          n == calls[i].arg
          coll == IF p = None THEN <<>> ELSE CollectionOf(p)
          first == CHOOSE k \in 1..Len(coll) : coll[k] = n /\ \A j \in 1..(k - 1) : coll[j] # n
      IN  /\ EndsWithNewline(i) \/ EndsWithSemicolon(i)
          /\ (p = None \/ Len(coll) <= 1) => EndsWithSemicolon(i)
          /\ (Len(coll) > 1 /\ IsElement(n, coll)) =>
               (EndsWithNewline(i) <=>
                  \A j \in (first + 1)..Len(coll) : coll[j].type # "Assignment")

C7_Witness ==
  /\ status = "done" /\ node = StyleSheet(<<A1, R1, A2>>)
  /\ \E i, j \in AssignmentPrints :
       /\ calls[i].arg = A1 /\ EndsWithSemicolon(i)
       /\ calls[j].arg = A2 /\ EndsWithNewline(j)

\*-------------------------------------------------------------------------
\* C8: every collection-printing routine emits its separator exactly
\* between consecutive elements (n-1 times for n >= 1 elements, never for
\* n = 0) and not after the last element: `,` and a space for SassList
\* elements, CallExpression arguments and the params of SassFunctionCall,
\* SassMixinCall, SassFunction and SassMixin; a newline for StyleSheet
\* children, BlockStatement body, Rule declarations and AtRule children.
\*-------------------------------------------------------------------------
CommaLists ==
  {<<"SassList", "elements">>, <<"CallExpression", "arguments">>,
   <<"SassFunctionCall", "params">>, <<"SassMixinCall", "params">>,
   <<"SassFunction", "params">>, <<"SassMixin", "params">>}

LineLists ==
  {<<"StyleSheet", "children">>, <<"BlockStatement", "body">>,
   <<"Rule", "declarations">>, <<"AtRule", "children">>}

\* The calls the routine run by print call i makes itself strictly between
\* calls a and b.
OwnBetween(i, a, b) ==
  LET RECURSIVE From(_)
      From(j) == IF j >= b THEN <<>>
                 ELSE (IF calls[j].d = calls[i].d + 1 THEN <<calls[j]>> ELSE <<>>)
                      \o From(j + 1)
  IN  From(a + 1)

OwnCalls(i) == OwnBetween(i, i, EndOf(i) + 1)

\* The print calls the routine run by print call i makes for its field f.
ElementPrints(i, f) ==
  {j \in (i + 1)..EndOf(i) :
     calls[j].d = calls[i].d + 1 /\ calls[j].op = "print" /\ calls[j].field = f}

IsSeparatorStart(c, comma) == IF comma THEN IsToken(c, <<",">>) ELSE c.op = "newline"

Separated(i, f, comma) ==
  LET n == calls[i].arg
      want == IF HasField(n, f) THEN n[f] ELSE <<>>
      E == ElementPrints(i, f)
      d1 == calls[i].d + 1
      sep == IF comma THEN <<token(<<",">>, d1), space(d1)>> ELSE <<newline(d1)>>
      own == OwnCalls(i)
  IN  /\ Cardinality(E) = Len(want)
      /\ \A j \in E : calls[j].arg = want[1 + Cardinality({e \in E : e < j})]
      /\ Cardinality({k \in 1..Len(own) : IsSeparatorStart(own[k], comma)})
           = IF Len(want) = 0 THEN 0 ELSE Len(want) - 1
      /\ \A a, b \in E :
           (a < b /\ ~\E c \in E : a < c /\ c < b) =>
             OwnBetween(i, a, b) \in {sep, sep \o <<token(<<"$">>, d1)>>}
      /\ \A a \in E :
           (~\E c \in E : a < c) =>
             LET after == OwnBetween(i, a, EndOf(i) + 1)
             IN  after # <<>> =>
                   /\ ~IsSeparatorStart(after[1], comma)
                   /\ after[1].op \notin {"space", "newline"}

C8_SeparatorsOnlyBetween ==
  status = "done" =>
    \A i \in AllPrints :
      /\ \A pos \in CommaLists : calls[i].arg.type = pos[1] => Separated(i, pos[2], TRUE)
      /\ \A pos \in LineLists : calls[i].arg.type = pos[1] => Separated(i, pos[2], FALSE)

C8_Witness ==
  /\ status = "done" /\ node = SassList(<<X, One, X>>)
  /\ Cardinality({k \in 1..Len(calls) : IsToken(calls[k], <<",">>)}) = 2
  /\ IsToken(calls[Len(calls)], <<")">>) /\ IsToken(calls[Len(calls) - 1], <<"x">>)

\*-------------------------------------------------------------------------
\* C9: the emission of every Declaration, Assignment, AtReturn, AtContent,
\* SassImport, SassModule, SassForward and SassMixinCall ends with exactly
\* one statement-terminating `;`, emitted after all other non-whitespace
\* tokens of the statement; a SassMixinCall emits its parentheses whether or
\* not params are given, and with a body the `;` comes after the body's
\* block has been closed.
\*-------------------------------------------------------------------------
Statements ==
  {"Declaration", "Assignment", "AtReturn", "AtContent", "SassImport",
   "SassModule", "SassForward", "SassMixinCall"}

Whitespace == {"space", "newline", "maybeNewline"}

EndsInSemicolon(c) == c.op = "token" /\ Len(c.arg) > 0 /\ c.arg[Len(c.arg)] = ";"

\* The text without the whitespace at its end.
RECURSIVE TrimEnd(_)
TrimEnd(t) ==
  IF t # <<>> /\ t[Len(t)] \in {" ", "\n", "  "} THEN TrimEnd(SubSeq(t, 1, Len(t) - 1)) ELSE t

C9_StatementEndsWithSemicolon ==
  status = "done" =>
    /\ \A i \in AllPrints :
         calls[i].arg.type \in Statements =>
           LET own == OwnCalls(i)
               semis == {k \in 1..Len(own) : EndsInSemicolon(own[k])}
           IN  /\ Cardinality(semis) = 1
               /\ \A k \in semis : \A m \in (k + 1)..Len(own) : own[m].op \in Whitespace
               /\ calls[i].arg.type = "SassMixinCall" =>
                    /\ Cardinality({k \in 1..Len(own) : IsToken(own[k], <<"(">>)}) = 1
                    /\ Cardinality({k \in 1..Len(own) : IsToken(own[k], <<")">>)}) = 1
                    /\ HasField(calls[i].arg, "body") =>
                         \E b \in ElementPrints(i, "body") :
                           /\ calls[EndOf(b)] = blockEnd(<<"}">>, calls[b].d + 1)
                           /\ calls[EndOf(b) + 1] = token(<<";">>, calls[i].d + 1)
    /\ node.type \in Statements =>
         (TrimEnd(output) # <<>> /\ TrimEnd(output)[Len(TrimEnd(output))] = ";")

C9_Witness ==
  /\ status = "done" /\ node = With(SassMixinCall(X), "body", BlockStatement(<<D1>>))
  /\ IsToken(calls[Len(calls)], <<";">>) /\ calls[Len(calls) - 1].op = "blockEnd"

\*-------------------------------------------------------------------------
\* C10 (as claimed): in the output of every valid tree every `{` has a
\* matching `}` and every `(` a matching `)`, properly nested (no prefix
\* with more closers than openers, equal counts at the end), also for trees
\* with raw pass-through text.
\*-------------------------------------------------------------------------
Count(t, k, a) == Cardinality({j \in 1..k : t[j] = a})

Nested(t, open, close) ==
  /\ \A k \in 1..Len(t) : Count(t, k, close) <= Count(t, k, open)
  /\ Count(t, Len(t), close) = Count(t, Len(t), open)

WellNested(t) == Nested(t, "{", "}") /\ Nested(t, "(", ")")

C10_OutputWellNested == status = "done" => WellNested(output)

\* C10 (amended): for all valid trees in which every raw pass-through text
\* (names, values, selectors, properties, paths, media, operators, comment
\* text) is properly nested by itself, the output has a matching `}` for
\* every `{` and a matching `)` for every `(`, properly nested.
\* The raw texts of a tree.
RECURSIVE RawTextsOf(_)
RawOfField(n, f) == IF HasField(n, f) THEN RawTextsOf(n[f]) ELSE {}
RawOfArray(n, f) ==
  IF HasField(n, f) THEN UNION {RawTextsOf(n[f][k]) : k \in 1..Len(n[f])} ELSE {}
RawTextsOf(n) ==
  CASE n.type \in {"SassBoolean", "SassNumber", "Newline", "AtContent"} -> {}
    [] n.type = "Comment" ->
         IF HasField(n, "value") THEN {n.value} ELSE {}
    [] n.type = "Identifier" -> {n.name}
    [] n.type \in {"SassColor", "SassString", "SassValue"} -> {n.value}
    [] n.type \in {"SassImport", "SassModule", "SassForward"} -> {n.path}
    [] n.type = "BlockStatement" -> RawOfArray(n, "body")
    [] n.type \in {"SassFunction", "SassMixin", "SassFunctionCall", "SassMixinCall"} ->
         RawOfField(n, "id") \cup RawOfArray(n, "params") \cup RawOfField(n, "body")
    [] n.type = "SassList" -> RawOfArray(n, "elements")
    [] n.type = "SassMap" -> RawOfArray(n, "properties")
    [] n.type = "SassMapProperty" -> RawOfField(n, "key") \cup RawOfField(n, "value")
    [] n.type = "Rule" ->
         {n.selectors[k] : k \in 1..Len(n.selectors)} \cup RawOfArray(n, "declarations")
    [] n.type = "Declaration" ->
         {n.property} \cup (IF IsString(n.value) THEN {n.value.value}
                            ELSE RawTextsOf(n.value))
    [] n.type = "AtRule" -> {n.name, n.media} \cup RawOfArray(n, "children")
    [] n.type = "AtReturn" -> RawOfField(n, "argument")
    [] n.type = "Assignment" -> RawOfField(n, "id") \cup RawOfField(n, "init")
    [] n.type = "AssignmentPattern" -> RawOfField(n, "left") \cup RawOfField(n, "right")
    [] n.type = "RestPattern" -> RawOfField(n, "id")
    [] n.type = "IfStatement" ->
         RawOfField(n, "test") \cup RawOfField(n, "consequent")
         \cup RawOfField(n, "alternate")
    [] n.type = "LogicalExpression" ->
         RawOfField(n, "left") \cup {n.operator} \cup RawOfField(n, "right")
    [] n.type = "CallExpression" -> RawOfField(n, "callee") \cup RawOfArray(n, "arguments")
    [] n.type = "StyleSheet" -> RawOfArray(n, "children")

C10_WellNestedGivenRawTexts ==
  (status = "done" /\ \A t \in RawTextsOf(node) : WellNested(t)) => WellNested(output)

C10_Witness ==
  /\ status = "done"
  /\ node = AtRule(<<"media">>, <<"(", "min-width: 0", ")">>, <<R1, R2>>)
  /\ Count(output, Len(output), "{") = 3 /\ Count(output, Len(output), "}") = 3
  /\ Count(output, Len(output), "(") = 1

\*-------------------------------------------------------------------------
\* C11: an AtRule opens and closes a nested block exactly when its children
\* collection has one or more elements; an AtRule with zero children emits
\* nothing beyond the prelude `@<name> <media>`: no block delimiter and no
\* token or whitespace after the media text.
\*-------------------------------------------------------------------------
\* The calls that emit the prelude, made at depth d.
Prelude(n, d) == <<token(<<"@">> \o n.name, d), space(d), token(n.media, d)>>

Delimiters(own) == {k \in 1..Len(own) : own[k].op \in {"blockStart", "blockEnd"}}

\* The routine run by print call i opens a `{` block after its first four
\* calls and closes it with its last call.
HasBlock(i) ==
  LET own == OwnCalls(i)
      d1 == calls[i].d + 1
  IN  /\ Len(own) >= 6
      /\ own[5] = blockStart(<<"{">>, d1)
      /\ own[Len(own)] = blockEnd(<<"}">>, d1)
      /\ Delimiters(own) = {5, Len(own)}

C11_BlockOnlyWithChildren ==
  status = "done" =>
    \A i \in AllPrints :
      calls[i].arg.type = "AtRule" =>
        IF Len(calls[i].arg.children) >= 1
        THEN HasBlock(i)
        ELSE OwnCalls(i) = Prelude(calls[i].arg, calls[i].d + 1)

\* C11 (the rule the routine follows): the block is opened and closed
\* exactly when there are one or more children, and the prelude is always
\* followed by a space() call, also when there are no children.
C11_BlockAfterPreludeAndSpace ==
  status = "done" =>
    \A i \in AllPrints :
      calls[i].arg.type = "AtRule" =>
        LET own == OwnCalls(i)
            d1 == calls[i].d + 1
        IN  /\ Len(own) >= 4
            /\ SubSeq(own, 1, 4) = Prelude(calls[i].arg, d1) \o <<space(d1)>>
            /\ IF Len(calls[i].arg.children) >= 1 THEN HasBlock(i) ELSE Len(own) = 4

\*-------------------------------------------------------------------------
\* C12: a Comment whose value is the empty string, undefined or null makes
\* no printer call at all; a Comment whose value has n >= 1 lines (split on
\* line breaks) emits exactly n lines, each prefixed with `// `, with a
\* newline between consecutive lines and none after the last.
\*-------------------------------------------------------------------------
NoContent(n) == IsNull(n, "value") \/ (~HasField(n, "value")) \/ n.value = <<>>

LineBreaks(t) == Cardinality({k \in 1..Len(t) : t[k] = "\n"})

\* The text of the lines, each behind `// `, with a line break between two.
RECURSIVE CommentText(_)
CommentText(lines) ==
  <<"//", " ">> \o Head(lines)
  \o (IF Len(lines) = 1 THEN <<>> ELSE <<"\n">> \o CommentText(Tail(lines)))

C12_CommentLines ==
  status = "done" =>
    /\ \A i \in AllPrints :
         calls[i].arg.type = "Comment" =>
           LET n == calls[i].arg
               own == OwnCalls(i)
               d1 == calls[i].d + 1
           IN  IF NoContent(n) THEN own = <<>>
               ELSE LET lines == SplitLines(n.value)
                    IN  /\ Len(lines) = LineBreaks(n.value) + 1
                        /\ Len(own) = 3 * Len(lines) - 1
                        /\ \A k \in 1..Len(lines) :
                             /\ own[3 * k - 2] = token(<<"//", " ">>, d1)
                             /\ own[3 * k - 1] = token(lines[k], d1)
                             /\ k < Len(lines) => own[3 * k] = newline(d1)
    /\ node.type = "Comment" =>
         output = IF NoContent(node) THEN <<>> ELSE CommentText(SplitLines(node.value))

C12_Witness ==
  /\ status = "done" /\ node = Comment(<<"a", "\n", "b">>)
  /\ Len(calls) = 6
  /\ output = <<"//", " ", "a", "\n", "//", " ", "b">>

\*-------------------------------------------------------------------------
\* C13: for every node type and every supplied field map, the constructor
\* returns a node if and only if every declared field's supplied value
\* satisfies that field's validator (an optional field may be absent);
\* otherwise construction fails with a schema validation error naming the
\* type and the first failing field, and no node is produced.  SassNumber
\* with a string value fails on `value`, Rule with a non-array declarations
\* fails on `declarations`.  So every node that exists satisfies its schema.
\*-------------------------------------------------------------------------
\* The supplied value of declared field k of the construction satisfies the
\* field's validator, an alternative that names a type being satisfied by
\* the nodes of that type.
Satisfies(k) ==
  LET field == fields(construction.type)[k]
      supplied == construction.supplied
  IN  IF HasField(supplied, field.name)
      THEN Check(field.validate, supplied[field.name], "reference") = "pass"
      ELSE field.optional

Failing == {k \in 1..Len(fields(construction.type)) : ~Satisfies(k)}

SchemaError(T, f) == [name |-> "SchemaValidationError", type |-> T, field |-> f]

Validated ==
  LET T == construction.type
      supplied == construction.supplied
      Is(f, kind) == HasField(supplied, f) /\ HasField(supplied[f], "typeof")
                     /\ supplied[f].typeof = kind
  IN  /\ (construction.node # None) <=> (Failing = {})
      /\ Failing = {} =>
           /\ construction.node = [type |-> T] @@ supplied
           /\ construction.error = None
      /\ Failing # {} =>
           /\ construction.node = None
           /\ construction.error =
                SchemaError(T, fields(T)[CHOOSE k \in Failing : \A j \in Failing : k <= j].name)
      /\ (T = "SassNumber" /\ Is("value", "string")) =>
           construction.error = SchemaError("SassNumber", "value")
      /\ (T = "Rule" /\ HasField(supplied, "declarations")
          /\ ~Is("declarations", "array")) =>
           construction.error = SchemaError("Rule", "declarations")

C13_ValidatesWithValidators ==
  (status \in {"constructed", "rejected"} /\ construction.type # "SassMapProperty")
    => Validated

C13_Witness ==
  /\ status = "rejected"
  /\ construction.type = "Rule"
  /\ construction.supplied = [declarations |-> Value("string", <<"not-a-number">>),
                              selectors |-> Value("array", <<>>)]
  /\ construction.error = SchemaError("Rule", "declarations")

\*-------------------------------------------------------------------------
\* C14: the Declaration routine branches on the shape of its value: a
\* string is emitted verbatim as a single token, a CallExpression node is
\* generated recursively, and a value that is neither makes generation fail
\* (MalformedChildShape) instead of producing output; in the two successful
\* cases the emitted order is property, `:`, space, value, `;`.
\*-------------------------------------------------------------------------
\* The routine run by print call i emits property, `:`, space, the value
\* (as one token when it is a string, by a print call otherwise) and `;`.
DeclarationOrder(i) ==
  LET n == calls[i].arg
      own == OwnCalls(i)
      d1 == calls[i].d + 1
  IN  /\ Len(own) = 5
      /\ SubSeq(own, 1, 3) = <<token(n.property, d1), token(<<":">>, d1), space(d1)>>
      /\ own[4] = IF IsString(n.value) THEN token(n.value.value, d1)
                  ELSE printCall(n.value, None, n, "value", d1)
      /\ own[5] = token(<<";">>, d1)

ExpectedShape(v) == IsString(v) \/ (HasField(v, "type") /\ v.type = "CallExpression")

C14_DeclarationValueShape ==
  (node.type = "Declaration" /\ status \in {"done", "failed"}) =>
    IF ExpectedShape(node.value)
    THEN status = "done" /\ DeclarationOrder(1)
    ELSE status = "failed" /\ output = <<>>

\* C14 (what the routine does): a string value is emitted as one token and
\* any other value is handed to print(), whatever it is; whenever the pass
\* completes, the order is property, `:`, space, value, `;`.
C14_DeclarationPrintsAnyNode ==
  status = "done" =>
    \A i \in AllPrints : calls[i].arg.type = "Declaration" => DeclarationOrder(i)

\*-------------------------------------------------------------------------
\* C15: for each of the four combinations of an Assignment's `default` and
\* `global` flags the routine emits exactly the flags that are set,
\* `!default` before `!global`, each flag separated by a space() call from
\* the token that precedes it (the init value or the other flag), with `;`
\* immediately after the last flag (or after the init value when no flag
\* is set).
\*-------------------------------------------------------------------------
Flag(n, f) == HasField(n, f) /\ n[f]

\* The calls the Assignment routine run by print call i makes after it has
\* printed the init value, up to and including the `;`.
AfterInit(i) ==
  LET j == CHOOSE k \in ElementPrints(i, "init") : TRUE
      rest == OwnBetween(i, j, EndOf(i) + 1)
  IN  IF rest # <<>> /\ rest[Len(rest)].op = "newline"
      THEN SubSeq(rest, 1, Len(rest) - 1) ELSE rest

C15_FlagsSpaced ==
  status = "done" =>
    \A i \in AllPrints :
      calls[i].arg.type = "Assignment" =>
        LET n == calls[i].arg
            d1 == calls[i].d + 1
        IN  AfterInit(i) =
              (IF Flag(n, "default") THEN <<space(d1), token(<<"!default">>, d1)>> ELSE <<>>)
              \o (IF Flag(n, "global") THEN <<space(d1), token(<<"!global">>, d1)>> ELSE <<>>)
              \o <<token(<<";">>, d1)>>

\* C15 (what the routine does): the same, but the space() before `!global`
\* is called only when `!default` was emitted; with `global` alone the flag
\* follows the init value directly.
C15_GlobalSpacedAfterDefault ==
  status = "done" =>
    \A i \in AllPrints :
      calls[i].arg.type = "Assignment" =>
        LET n == calls[i].arg
            d1 == calls[i].d + 1
        IN  AfterInit(i) =
              (IF Flag(n, "default") THEN <<space(d1), token(<<"!default">>, d1)>> ELSE <<>>)
              \o (IF Flag(n, "global")
                  THEN (IF Flag(n, "default") THEN <<space(d1)>> ELSE <<>>)
                       \o <<token(<<"!global">>, d1)>>
                  ELSE <<>>)
              \o <<token(<<";">>, d1)>>

====
